---- MODULE Spec2Model ----
(***************************************************************************)
(* Model of src/utils/load_data.py: DataLoader.run fans the files of       *)
(* files_to_load out over a ThreadPoolExecutor; every worker runs          *)
(* load_csv_to_postgres (one engine per attempt, retry with a fixed        *)
(* delay); the calling thread drains as_completed(futures) into            *)
(* successful_files / failed_files and then prints the summary.            *)
(*                                                                         *)
(* One state variable per field or local of the code; a function over      *)
(* Tasks holds the locals of each call of load_csv_to_postgres.  A step of  *)
(* a worker is one statement group of the attempt (create and connect,     *)
(* read and validate, write, commit, sleep, finally); a failing step       *)
(* includes the except clause that handles it, up to time.sleep.           *)
(***************************************************************************)
EXTENDS Integers, Sequences, FiniteSets, TLC

\* ---------------------------------------------------------------- bounds
NumFiles == 2        \* len(files_to_load)
MaxRetries == 3      \* max_retries ranges over 0..MaxRetries
MaxRuns == 2         \* run is called at most MaxRuns times on one DataLoader
MaxCols == 2         \* a DataFrame has at most MaxCols columns
MaxRows == 2         \* ... and at most MaxRows rows

Tasks == 1..NumFiles

\* What pd.read_csv can meet at file_path when an attempt reads it (the file
\* system is read anew by every attempt):
\*   "missing"    no such file / unreadable   (OSError, ParserError, ...)
\*   "nodata"     zero bytes                  (pd.errors.EmptyDataError)
\*   "headeronly" a header line and no row    (DataFrame with 0 rows)
\*   "rows"       a header line and one row
FileContents == {"missing", "nodata", "headeronly", "rows"}

\* The DataFrames validate_csv can be handed: column labels (not necessarily
\* distinct) and rows of text cells, "" being a missing cell (NaN).
ColNames == {"a", "b"}
Cells == {"", "x"}

SeqsUpTo(S, n) == UNION {[1..k -> S] : k \in 0..n}

DataFrames ==
    UNION {{[columns |-> c, rows |-> r] :
                r \in SeqsUpTo([1..Len(c) -> Cells], MaxRows)} :
           c \in SeqsUpTo(ColNames, MaxCols)}

VARIABLES
    \* configuration, fixed by __init__
    max_workers, max_retries, db_host,
    \* run (the calling thread)
    mainPc, submitted, finished, waiterQ, pending,
    successful_files, failed_files, summary,
    \* load_csv_to_postgres (one call per task)
    pc, attempt, engine, engine_id, held, last_error, exit, result,
    df, validation,
    \* history of each call, read by the properties only
    delays, fails, raised, written, committed,
    \* history of the run: the order in which the calls ended
    events

cfgVars  == <<max_workers, max_retries, db_host>>
mainVars == <<mainPc, submitted, finished, waiterQ, pending,
              successful_files, failed_files, summary>>
listVars == <<successful_files, failed_files, summary>>
loadVars == <<pc, attempt, engine, engine_id, held, last_error, exit, result,
              df, validation>>
valVars  == <<df, validation>>
engVars  == <<engine, engine_id, held>>
histVars == <<delays, fails, raised, written, committed>>
vars     == <<cfgVars, mainVars, loadVars, histVars, events>>

\* ---------------------------------------------------------------- helpers

\* str(e) of the exceptions: the ValueError of _create_db_engine, a database
\* error (connecting, writing or committing), a file that cannot be read, a
\* file without data; and the two messages the code itself returns.
CredsMsg   == "Database credentials are not fully set in environment variables."
DbMsg      == "connection to server failed"
ReadMsg    == "No such file or directory"
NoDataMsg  == "No columns to parse from file"
EmptyMsg   == "Empty or malformed CSV"
InvalidMsg == "Validation failed"

\* The DataFrame pd.read_csv(file_path, dtype=str) builds from a readable file.
read_csv(content) ==
    IF content = "headeronly" THEN [columns |-> <<"a">>, rows |-> <<>>]
    ELSE [columns |-> <<"a">>, rows |-> << <<"x">> >>]

\* `df` before pd.read_csv has bound it in the current attempt (the value a
\* previous attempt left is never read), and the state of the attempt before
\* validate_csv has been called.
NoFrame == [columns |-> <<>>, rows |-> <<>>]
NoValidation == [done |-> FALSE, ok |-> FALSE, warned |-> FALSE]

\* df.empty: an axis of length 0.
empty(d) == Len(d.rows) = 0 \/ Len(d.columns) = 0

\* df.isnull().all(axis=1).any(): some row has every cell missing.
has_empty_row(d) ==
    \E i \in 1..Len(d.rows) : \A j \in 1..Len(d.columns) : d.rows[i][j] = ""

\* df.columns.duplicated().any(): a label occurs again further right.
duplicated_any(d) ==
    \E i, j \in 1..Len(d.columns) : i < j /\ d.columns[i] = d.columns[j]

\* validate_csv: df.empty, then duplicated columns, then no columns.
validate_csv_rejecting_empty_rows(d) ==
    IF empty(d) THEN FALSE
    ELSE IF has_empty_row(d) THEN FALSE
    ELSE IF duplicated_any(d) THEN FALSE
    ELSE TRUE

validate_csv(d) ==
    IF empty(d) THEN FALSE
    ELSE IF duplicated_any(d) THEN FALSE
    ELSE IF Len(d.columns) = 0 THEN FALSE
    ELSE TRUE

\* Whether validate_csv logs the "completely empty rows" warning: the check
\* comes after the return for df.empty and before the one for duplicates.
warns_empty_rows(d) == ~empty(d) /\ has_empty_row(d)

\* One call of validate_csv: what it returns and whether it warned.
Validate(d) == [done |-> TRUE, ok |-> validate_csv(d), warned |-> warns_empty_rows(d)]

\* Which except clause of load_csv_to_postgres takes an exception of class exc:
\* "EmptyDataError" (break), "Exception" (retry) or "none" (it propagates).
ExceptClauseNarrow(exc) ==
    IF exc = "EmptyDataError" THEN "EmptyDataError"
    ELSE IF exc = "SQLAlchemyError" THEN "Exception"
    ELSE "none"

ExceptClause(exc) ==
    IF exc = "EmptyDataError" THEN "EmptyDataError" ELSE "Exception"

\* Calls of load_csv_to_postgres that a worker thread is running.
InFlight == {t \in Tasks : pc[t] \notin {"unsubmitted", "queued", "done"}}
LiveEngines == UNION {held[t] : t \in Tasks}

NoResult == [success |-> FALSE, error |-> "", raised |-> FALSE]

\* The identity of an engine object; NoEngine while `engine` is None.
NoEngine == <<0, 0>>

\* create_engine(db_string) builds a new Engine on every call: the one made
\* by the current attempt of task t.
NewEngineCached(t) == <<t, 1>>

NewEngine(t) == <<t, attempt[t]>>

\* `if engine is not None: engine.dispose()`: the engines task t still holds
\* undisposed after the finally block.
DisposeSkipped(t) == held[t]

Dispose(t) == held[t] \ {engine_id[t]}

\* ---------------------------------------------------------------- Init
\* The state after DataLoader(...): empty result lists, nothing submitted.
Init ==
    /\ max_workers \in 1..NumFiles
    /\ max_retries \in 0..MaxRetries
    /\ db_host \in BOOLEAN
    /\ mainPc = "submit"
    /\ submitted = 0
    /\ finished = {}
    /\ waiterQ = <<>>
    /\ pending = {}
    /\ successful_files = <<>>
    /\ failed_files = <<>>
    /\ summary = FALSE
    /\ pc = [t \in Tasks |-> "unsubmitted"]
    /\ attempt = [t \in Tasks |-> 0]
    /\ engine = [t \in Tasks |-> "None"]
    /\ engine_id = [t \in Tasks |-> NoEngine]
    /\ held = [t \in Tasks |-> {}]
    /\ df = [t \in Tasks |-> NoFrame]
    /\ validation = [t \in Tasks |-> NoValidation]
    /\ last_error = [t \in Tasks |-> ""]
    /\ exit = [t \in Tasks |-> "none"]
    /\ result = [t \in Tasks |-> NoResult]
    /\ delays = [t \in Tasks |-> 0]
    /\ fails = [t \in Tasks |-> 0]
    /\ raised = [t \in Tasks |-> ""]
    /\ written = [t \in Tasks |-> FALSE]
    /\ committed = [t \in Tasks |-> FALSE]
    /\ events = <<>>


\* ---------------------------------------------------------------- workers
\* ThreadPoolExecutor(max_workers=self.max_workers): a queued call starts only
\* on an idle worker thread, and the pool never has more than max_workers.
WorkerFreeUnbounded == TRUE

WorkerFree == Cardinality(InFlight) < max_workers

\* The pool's work queue is FIFO: the next call to start is the earliest
\* submitted one still queued; no outcome of another call removes a queued one.
HeadOfQueueUnlessFailed(t) ==
    /\ pc[t] = "queued"
    /\ \A u \in Tasks : u < t => pc[u] # "queued"
    /\ \A u \in Tasks : pc[u] = "done" => result[u].success

HeadOfQueue(t) ==
    /\ pc[t] = "queued"
    /\ \A u \in Tasks : u < t => pc[u] # "queued"

\* `attempt < self.max_retries`: whether the handler sleeps before the retry.
AttemptsRemainOffByOne(t) == attempt[t] + 1 < max_retries

AttemptsRemain(t) == attempt[t] < max_retries

\* last_error after the handler of `except Exception as e` ran: str(e).
KeepFirstError(t, msg) == IF last_error[t] = "" THEN msg ELSE last_error[t]

HandlerError(t, msg) == msg

\* successful_files and failed_files once a call of load_csv_to_postgres has
\* ended with outcome res: the method hands its outcome back as the return
\* value and touches neither list.
ListsAfterCallReporting(t, res) ==
    <<IF res.success THEN Append(successful_files, t) ELSE successful_files,
      IF res.success THEN failed_files
      ELSE Append(failed_files, <<t, res.error>>)>>

ListsAfterCall(t, res) == <<successful_files, failed_files>>

\* The mark that stands in `events` for the call of as_completed.
AsCompletedCalled == 0

\* The waiter as_completed installed on the pending futures collects them in
\* the order they finish, and as_completed yields them in that order.
WaiterQueueNewestFirst(t) == <<t>> \o waiterQ

WaiterQueueAfter(t) == Append(waiterQ, t)

\* load_csv_to_postgres returns (or raises) for task t: its locals are gone,
\* the future gets its result, and as_completed's waiter, once installed,
\* records the completion order.
Complete(t, res) ==
    /\ pc' = [pc EXCEPT ![t] = "done"]
    /\ result' = [result EXCEPT ![t] = res]
    /\ waiterQ' = IF mainPc = "drain" THEN WaiterQueueAfter(t) ELSE waiterQ
    /\ events' = Append(events, t)
    /\ attempt' = [attempt EXCEPT ![t] = 0]
    /\ last_error' = [last_error EXCEPT ![t] = ""]
    /\ exit' = [exit EXCEPT ![t] = "none"]
    /\ delays' = [delays EXCEPT ![t] = 0]
    /\ fails' = [fails EXCEPT ![t] = 0]
    /\ raised' = [raised EXCEPT ![t] = ""]
    /\ engine_id' = [engine_id EXCEPT ![t] = NoEngine]
    /\ df' = [df EXCEPT ![t] = NoFrame]
    /\ validation' = [validation EXCEPT ![t] = NoValidation]
    /\ successful_files' = ListsAfterCall(t, res)[1]
    /\ failed_files' = ListsAfterCall(t, res)[2]

\* `with engine.begin() as conn` left by an exception: the transaction is
\* rolled back, so the file has a committed write only if it had one before.
BeginExitKeepsWrite(t) == committed[t] \/ written[t]

BeginExitOnError(t) == committed[t]

\* An exception of class exc with message msg leaves the try block of the
\* current attempt: the matching except clause runs, up to time.sleep.
Raise(t, exc, msg) ==
    LET clause == ExceptClause(exc) IN
    /\ raised' = [raised EXCEPT ![t] = msg]
    /\ fails' = [fails EXCEPT ![t] = @ + 1]
    /\ written' = [written EXCEPT ![t] = FALSE]
    /\ last_error' = [last_error EXCEPT ![t] =
            IF clause = "EmptyDataError" THEN EmptyMsg
            ELSE IF clause = "Exception" THEN HandlerError(t, msg)
            ELSE @]
    /\ IF clause = "Exception" /\ AttemptsRemain(t)
       THEN /\ pc' = [pc EXCEPT ![t] = "sleep"]
            /\ delays' = [delays EXCEPT ![t] = @ + 1]
       ELSE /\ pc' = [pc EXCEPT ![t] = "finally"]
            /\ UNCHANGED delays
    /\ exit' = [exit EXCEPT ![t] =
            IF clause = "EmptyDataError" THEN "break"
            ELSE IF clause = "Exception" THEN "next"
            ELSE "raise"]
    /\ df' = [df EXCEPT ![t] = NoFrame]
    /\ validation' = [validation EXCEPT ![t] = NoValidation]
    /\ committed' = [committed EXCEPT ![t] = BeginExitOnError(t)]
    /\ UNCHANGED <<attempt, result, waiterQ, events>>

\* A worker thread takes the call off the queue: last_error = "", then the
\* head of `for attempt in range(1, self.max_retries + 1)`.
Start(t) ==
    /\ HeadOfQueue(t)
    /\ WorkerFree
    /\ IF 1 <= max_retries
       THEN /\ attempt' = [attempt EXCEPT ![t] = 1]
            /\ pc' = [pc EXCEPT ![t] = "create"]
            /\ last_error' = [last_error EXCEPT ![t] = ""]
            /\ UNCHANGED <<exit, result, waiterQ, delays, fails, raised>>
            /\ UNCHANGED <<engine_id, valVars, successful_files, failed_files, events>>
       ELSE Complete(t, [success |-> FALSE, error |-> "", raised |-> FALSE])
    /\ engine' = [engine EXCEPT ![t] = "None"]
    /\ UNCHANGED <<held, written, committed>>
    /\ UNCHANGED <<cfgVars, mainPc, submitted, finished, pending, summary>>

\* engine = self._create_db_engine(); with engine.begin() as conn:
\* ValueError when a credential is missing, else a new engine whose first
\* connection may fail.
CreateEngine(t) ==
    /\ pc[t] = "create"
    /\ IF ~db_host
       THEN /\ Raise(t, "ValueError", CredsMsg)
            /\ UNCHANGED engVars
       ELSE /\ engine' = [engine EXCEPT ![t] = "live"]
            /\ engine_id' = [engine_id EXCEPT ![t] = NewEngine(t)]
            /\ held' = [held EXCEPT ![t] = @ \cup {NewEngine(t)}]
            /\ \/ /\ pc' = [pc EXCEPT ![t] = "read"]
                  /\ UNCHANGED <<attempt, valVars, last_error, exit, result, waiterQ,
                                 delays, fails, raised, written, committed, events>>
               \/ Raise(t, "SQLAlchemyError", DbMsg)
    /\ UNCHANGED <<cfgVars, mainPc, submitted, finished, pending, listVars>>


\* df = pd.read_csv(file_path, dtype=str); validate_csv(df, file_path):
\* EmptyDataError for a file without data, another exception for a file that
\* cannot be read, `return (file_path, False, "Validation failed")` for a
\* dataset that fails validation (the with block then exits without error).
ReadCsv(t) ==
    /\ pc[t] = "read"
    /\ \E content \in FileContents :
        IF content = "nodata" THEN Raise(t, "EmptyDataError", NoDataMsg)
        ELSE IF content = "missing" THEN Raise(t, "OSError", ReadMsg)
        ELSE /\ df' = [df EXCEPT ![t] = read_csv(content)]
             /\ validation' = [validation EXCEPT ![t] = Validate(read_csv(content))]
             /\ IF ~validate_csv(read_csv(content))
                THEN /\ pc' = [pc EXCEPT ![t] = "finally"]
                     /\ exit' = [exit EXCEPT ![t] = "return_invalid"]
                ELSE /\ pc' = [pc EXCEPT ![t] = "write"]
                     /\ UNCHANGED exit
             /\ UNCHANGED <<attempt, last_error, result, waiterQ, histVars, events>>
    /\ UNCHANGED engVars
    /\ UNCHANGED <<cfgVars, mainPc, submitted, finished, pending, listVars>>

\* df.to_sql(table_name, conn, ...): writes inside the open transaction, or
\* fails.
WriteTable(t) ==
    /\ pc[t] = "write"
    /\ \/ /\ pc' = [pc EXCEPT ![t] = "commit"]
          /\ written' = [written EXCEPT ![t] = TRUE]
          /\ UNCHANGED <<attempt, valVars, last_error, exit, result, waiterQ,
                         delays, fails, raised, committed, events>>
       \/ Raise(t, "SQLAlchemyError", DbMsg)
    /\ UNCHANGED engVars
    /\ UNCHANGED <<cfgVars, mainPc, submitted, finished, pending, listVars>>

\* `return (file_path, True, "")` leaves `with engine.begin()`: the
\* transaction commits, or the commit fails and its exception is handled.
Commit(t) ==
    /\ pc[t] = "commit"
    /\ \/ /\ pc' = [pc EXCEPT ![t] = "finally"]
          /\ exit' = [exit EXCEPT ![t] = "return_ok"]
          /\ committed' = [committed EXCEPT ![t] = TRUE]
          /\ written' = [written EXCEPT ![t] = FALSE]
          /\ UNCHANGED <<attempt, valVars, last_error, result, waiterQ,
                         delays, fails, raised, events>>
       \/ Raise(t, "SQLAlchemyError", DbMsg)
    /\ UNCHANGED engVars
    /\ UNCHANGED <<cfgVars, mainPc, submitted, finished, pending, listVars>>

\* time.sleep(self.retry_delay) returns; the handler is left.
Sleep(t) ==
    /\ pc[t] = "sleep"
    /\ pc' = [pc EXCEPT ![t] = "finally"]
    /\ UNCHANGED <<attempt, engVars, valVars, last_error, exit, result, waiterQ,
                   histVars, events>>
    /\ UNCHANGED <<cfgVars, mainPc, submitted, finished, pending, listVars>>

\* What the call hands to its future once the finally block has run: the
\* tuple of the return statement the try block was leaving through, the
\* exception no clause took, or `(file_path, False, last_error)` after the
\* loop (left by the break, or by running out of attempts).
ReturnValueLastError(t) ==
    IF exit[t] = "return_ok" THEN [success |-> TRUE, error |-> "", raised |-> FALSE]
    ELSE [success |-> FALSE, error |-> last_error[t], raised |-> FALSE]

ReturnValue(t) ==
    IF exit[t] = "return_ok" THEN [success |-> TRUE, error |-> "", raised |-> FALSE]
    ELSE IF exit[t] = "return_invalid"
         THEN [success |-> FALSE, error |-> InvalidMsg, raised |-> FALSE]
    ELSE IF exit[t] = "raise"
         THEN [success |-> FALSE, error |-> raised[t], raised |-> TRUE]
    ELSE [success |-> FALSE, error |-> last_error[t], raised |-> FALSE]

\* finally: engine.dispose() if an engine was made; then the next iteration
\* of the loop, or the end of the call.
Finally(t) ==
    /\ pc[t] = "finally"
    /\ IF exit[t] = "next" /\ attempt[t] + 1 <= max_retries
       THEN /\ attempt' = [attempt EXCEPT ![t] = @ + 1]
            /\ engine' = [engine EXCEPT ![t] = "None"]
            /\ engine_id' = [engine_id EXCEPT ![t] = NoEngine]
            /\ pc' = [pc EXCEPT ![t] = "create"]
            /\ exit' = [exit EXCEPT ![t] = "none"]
            /\ UNCHANGED <<valVars, last_error, result, waiterQ, delays, fails,
                           raised, successful_files, failed_files, events>>
       ELSE /\ engine' = [engine EXCEPT ![t] =
                    IF @ = "live" /\ engine_id[t] \notin Dispose(t)
                    THEN "disposed" ELSE @]
            /\ Complete(t, ReturnValue(t))
    /\ held' = [held EXCEPT ![t] = Dispose(t)]
    /\ UNCHANGED <<written, committed>>
    /\ UNCHANGED <<cfgVars, mainPc, submitted, finished, pending, summary>>

Worker(t) ==
    \/ Start(t)
    \/ CreateEngine(t)
    \/ ReadCsv(t)
    \/ WriteTable(t)
    \/ Commit(t)
    \/ Sleep(t)
    \/ Finally(t)

\* ---------------------------------------------------------------- run
\* futures.append(executor.submit(self.load_csv_to_postgres, ...)) for the
\* next file of files_to_load; after the last one the for loop is left.
Submit ==
    /\ mainPc = "submit"
    /\ submitted < NumFiles
    /\ submitted' = submitted + 1
    /\ pc' = [pc EXCEPT ![submitted + 1] = "queued"]
    /\ mainPc' = IF submitted + 1 = NumFiles THEN "as_completed" ELSE "submit"
    /\ UNCHANGED <<finished, waiterQ, pending, listVars>>
    /\ UNCHANGED <<cfgVars, attempt, engVars, valVars, last_error, exit, result,
                   histVars, events>>

\* as_completed(futures) starts: the futures already done are set aside (a
\* set, yielded in no particular order), the others are pending and a waiter
\* collects them in the order they complete.
AsCompleted ==
    /\ mainPc = "as_completed"
    /\ finished' = {t \in Tasks : pc[t] = "done"}
    /\ pending' = {t \in Tasks : pc[t] # "done"}
    /\ waiterQ' = <<>>
    /\ mainPc' = "drain"
    /\ events' = Append(events, AsCompletedCalled)
    /\ UNCHANGED <<submitted, listVars>>
    /\ UNCHANGED <<cfgVars, loadVars, histVars>>

\* The future as_completed yields next.
NextYielded(t) ==
    IF finished # {} THEN t \in finished
    ELSE waiterQ # <<>> /\ t = Head(waiterQ)

\* The two lists after `if success: ... append(file_path) else: ...
\* append((file_path, error))` for the outcome res of task t.
SuccessfulAfter(t, res) ==
    IF res.success THEN Append(successful_files, t) ELSE successful_files

FailedAfterNoElse(t, res) == Append(failed_files, <<t, res.error>>)

FailedAfter(t, res) ==
    IF res.success THEN failed_files ELSE Append(failed_files, <<t, res.error>>)

\* One iteration of `for future in as_completed(futures)`: future.result()
\* returns the outcome, or re-raises what the call raised; the outcome is
\* appended to one of the two lists.
Drain(t) ==
    /\ mainPc = "drain"
    /\ NextYielded(t)
    /\ IF finished # {}
       THEN finished' = finished \ {t} /\ UNCHANGED <<waiterQ, pending>>
       ELSE waiterQ' = Tail(waiterQ) /\ pending' = pending \ {t} /\ UNCHANGED finished
    /\ IF result[t].raised
       THEN /\ mainPc' = "unwind"
            /\ UNCHANGED <<successful_files, failed_files>>
       ELSE /\ mainPc' = mainPc
            /\ successful_files' = SuccessfulAfter(t, result[t])
            /\ failed_files' = FailedAfter(t, result[t])
    /\ UNCHANGED <<submitted, summary>>
    /\ UNCHANGED <<cfgVars, loadVars, histVars, events>>

\* as_completed is exhausted when nothing is set aside and nothing is pending.
DrainDoneEarly == finished = {}

DrainDone == finished = {} /\ pending = {}

\* The with block is left (executor.shutdown(wait=True) returns once every
\* call has ended): after the loop, self._summary_report() and run returns;
\* on an exception from future.result(), run raises it.
ExitPool ==
    /\ \/ mainPc = "drain" /\ DrainDone
       \/ mainPc = "unwind"
    /\ \A t \in Tasks : pc[t] = "done"
    /\ IF mainPc = "drain"
       THEN mainPc' = "done" /\ summary' = TRUE
       ELSE mainPc' = "raised" /\ UNCHANGED summary
    /\ UNCHANGED <<submitted, finished, waiterQ, pending, successful_files, failed_files>>
    /\ UNCHANGED <<cfgVars, loadVars, histVars, events>>

Main == Submit \/ AsCompleted \/ (\E t \in Tasks : Drain(t)) \/ ExitPool

Next == Main \/ (\E t \in Tasks : Worker(t))

Spec == Init /\ [][Next]_vars

\* Fair scheduling: the calling thread and every worker thread keep running.
FairSpec == Spec /\ WF_vars(Main) /\ \A t \in Tasks : WF_vars(Worker(t))

\* ------------------------------------------------- run called again
\* The runs that have ended: each appended one entry per file to the lists.
RunsEnded == (Len(successful_files) + Len(failed_files)) \div NumFiles

\* loader.run() is called once more on the same DataLoader after the previous
\* call returned: new futures, a new executor; self.successful_files and
\* self.failed_files are the lists __init__ made, which run never empties.
Rerun ==
    /\ mainPc \in {"done", "raised"}
    /\ RunsEnded < MaxRuns
    /\ mainPc' = "submit"
    /\ submitted' = 0
    /\ finished' = {}
    /\ waiterQ' = <<>>
    /\ pending' = {}
    /\ summary' = FALSE
    /\ pc' = [t \in Tasks |-> "unsubmitted"]
    /\ engine' = [t \in Tasks |-> "None"]
    /\ result' = [t \in Tasks |-> NoResult]
    /\ written' = [t \in Tasks |-> FALSE]
    /\ committed' = [t \in Tasks |-> FALSE]
    /\ events' = <<>>
    /\ UNCHANGED <<successful_files, failed_files>>
    /\ UNCHANGED <<cfgVars, attempt, engine_id, held, valVars, last_error, exit,
                   delays, fails, raised>>

RerunNext == Next \/ Rerun

RerunSpec == Init /\ [][RerunNext]_vars

\* ------------------------------------------------- validate_csv on its own
\* validate_csv is a public method: a caller hands it any DataFrame.  Here
\* every slot t is one such call on the DataFrame d of a new DataLoader;
\* df[t] is the argument and validation[t] what the call returned and logged.
ValInit ==
    /\ max_workers \in 1..NumFiles
    /\ max_retries \in 0..MaxRetries
    /\ db_host \in BOOLEAN
    /\ mainPc = "submit"
    /\ submitted = 0
    /\ finished = {}
    /\ waiterQ = <<>>
    /\ pending = {}
    /\ successful_files = <<>>
    /\ failed_files = <<>>
    /\ summary = FALSE
    /\ pc = [t \in Tasks |-> "unsubmitted"]
    /\ attempt = [t \in Tasks |-> 0]
    /\ engine = [t \in Tasks |-> "None"]
    /\ engine_id = [t \in Tasks |-> NoEngine]
    /\ held = [t \in Tasks |-> {}]
    /\ \E d \in DataFrames : df = [t \in Tasks |-> d]
    /\ validation = [t \in Tasks |-> NoValidation]
    /\ last_error = [t \in Tasks |-> ""]
    /\ exit = [t \in Tasks |-> "none"]
    /\ result = [t \in Tasks |-> NoResult]
    /\ delays = [t \in Tasks |-> 0]
    /\ fails = [t \in Tasks |-> 0]
    /\ raised = [t \in Tasks |-> ""]
    /\ written = [t \in Tasks |-> FALSE]
    /\ committed = [t \in Tasks |-> FALSE]
    /\ events = <<>>

ValidateCall(t) ==
    /\ ~validation[t].done
    /\ validation' = [validation EXCEPT ![t] = Validate(df[t])]
    /\ UNCHANGED <<cfgVars, mainVars, histVars, events>>
    /\ UNCHANGED <<pc, attempt, engVars, last_error, exit, result, df>>

ValNext == \E t \in Tasks : ValidateCall(t)

ValSpec == ValInit /\ [][ValNext]_vars


\* ---------------------------------------------------------------- properties

\* How often task t is recorded in the two result lists.
Occurrences(t) ==
    Cardinality({i \in 1..Len(successful_files) : successful_files[i] = t})
    + Cardinality({i \in 1..Len(failed_files) : failed_files[i][1] = t})

\* The step in which the call for task t ends.
Returns(t) == pc[t] # "done" /\ pc'[t] = "done"

\* C1: when run has returned, every task is recorded exactly once over the two
\* lists (none missing, none twice, none in both) and the lengths add up to
\* the number of tasks.
C1_Partition ==
    mainPc = "done" =>
        /\ \A t \in Tasks : Occurrences(t) = 1
        /\ Len(successful_files) + Len(failed_files) = NumFiles

C1_Witness ==
    /\ mainPc = "done"
    /\ max_workers >= 2
    /\ Len(successful_files) >= 1
    /\ \E i \in 1..Len(failed_files) : failed_files[i][2] = EmptyMsg

\* C2: with a connection parameter missing (and at least one attempt allowed),
\* run raises instead of returning and the error is not turned into per-file
\* failed outcomes.
C2_ConfigErrorAborts ==
    (~db_host /\ max_retries >= 1) => (mainPc # "done" /\ failed_files = <<>>)

\* C3: a call that ends because its last attempt failed with a retryable
\* error has made exactly max_retries attempts, all of them failed, and
\* returns a failed outcome carrying the message of the last attempt's error.
C3_Exhausted ==
    [][\A t \in Tasks :
        (Returns(t) /\ exit[t] = "next") =>
            /\ attempt[t] = max_retries
            /\ fails[t] = max_retries
            /\ result'[t] = [success |-> FALSE, error |-> raised[t], raised |-> FALSE]]_vars

C3_Witness ==
    \E t \in Tasks :
        /\ pc[t] = "finally" /\ exit[t] = "next"
        /\ attempt[t] = max_retries /\ max_retries >= 2
        /\ fails[t] = max_retries
        /\ raised[t] = DbMsg

\* C4: a call whose attempt k succeeds after k-1 failed attempts returns a
\* successful outcome from that attempt, with the retry delay incurred
\* exactly k-1 times, and starts no further attempt.
C4_SuccessAfterRetries ==
    [][
        /\ \A t \in Tasks :
            (pc[t] = "finally" /\ exit[t] = "return_ok" /\ pc'[t] # pc[t]) =>
                /\ pc'[t] = "done"
                /\ result'[t] = [success |-> TRUE, error |-> "", raised |-> FALSE]
                /\ attempt[t] <= max_retries
                /\ fails[t] = attempt[t] - 1
                /\ delays[t] = attempt[t] - 1
        /\ \A t \in Tasks :
            (pc[t] = "done" /\ result[t].success) =>
                (pc'[t] = "done" /\ attempt'[t] = attempt[t] /\ delays'[t] = delays[t])
    ]_vars

C4_Witness ==
    \E t \in Tasks :
        /\ pc[t] = "finally" /\ exit[t] = "return_ok"
        /\ attempt[t] = 3 /\ fails[t] = 2 /\ delays[t] = 2

\* C5 (as stated): a call that returns "Validation failed" has made one
\* attempt and incurred no retry delay.
C5_ValidationFirstAttempt ==
    \A t \in Tasks :
        (pc[t] = "finally" /\ exit[t] = "return_invalid") =>
            (attempt[t] = 1 /\ delays[t] = 0)

\* C5 (amended): the attempt whose dataset fails validation is the last one:
\* the call returns the failed outcome "Validation failed" from it with no
\* delay after it and no further attempt; every delay incurred belongs to an
\* earlier attempt that failed with a retryable error, so when validation is
\* reached on the first attempt the attempt count is 1 and there is no delay.
C5_ValidationNotRetried ==
    [][\A t \in Tasks :
        (pc[t] = "finally" /\ exit[t] = "return_invalid" /\ pc'[t] # pc[t]) =>
            /\ pc'[t] = "done"
            /\ result'[t] = [success |-> FALSE, error |-> InvalidMsg, raised |-> FALSE]
            /\ attempt[t] = fails[t] + 1
            /\ delays[t] = fails[t]
            /\ (fails[t] = 0 => (attempt[t] = 1 /\ delays[t] = 0))]_vars

C5_Witness ==
    \E t \in Tasks :
        /\ pc[t] = "done"
        /\ result[t] = [success |-> FALSE, error |-> InvalidMsg, raised |-> FALSE]

\* C6: an attempt whose read of the source file fails (the file cannot be
\* read, or holds no data) is the last one: no retry delay follows it and the
\* error message becomes "Empty or malformed CSV".
C6_ReadFailureTerminal ==
    [][\A t \in Tasks :
        (pc[t] = "read" /\ fails'[t] = fails[t] + 1) =>
            /\ pc'[t] = "finally"
            /\ exit'[t] = "break"
            /\ last_error'[t] = EmptyMsg
            /\ delays'[t] = delays[t]]_vars

\* C7: no call of load_csv_to_postgres ends by raising, and run neither
\* unwinds nor raises: every failure reaches run as a failed outcome value.
C7_NoPropagation ==
    /\ \A t \in Tasks : ~result[t].raised
    /\ mainPc \notin {"unwind", "raised"}

C7_Witness ==
    /\ mainPc = "done"
    /\ successful_files = <<>>
    /\ \E i \in 1..Len(failed_files) : failed_files[i][2] = EmptyMsg
    /\ \E i \in 1..Len(failed_files) : failed_files[i][2] \in {DbMsg, ReadMsg, InvalidMsg}

\* C8: under fair scheduling run eventually returns with every task started,
\* finished and recorded, whatever the outcomes of the other tasks.
C8_Progress ==
    <>(mainPc = "done" /\ \A t \in Tasks : pc[t] = "done" /\ Occurrences(t) = 1)

C8_Witness ==
    \E t, u \in Tasks :
        /\ pc[t] = "done" /\ ~result[t].success
        /\ pc[u] = "queued"

\* C9: the summary is produced, and run returns, only when every task has
\* ended and its outcome has been taken from as_completed and classified.
C9_ReportAfterAll ==
    (summary \/ mainPc = "done") =>
        /\ \A t \in Tasks : pc[t] = "done"
        /\ finished = {} /\ pending = {} /\ waiterQ = <<>>
        /\ Len(successful_files) + Len(failed_files) = NumFiles

C9_Witness ==
    /\ summary
    /\ max_workers = 1
    /\ Len(successful_files) + Len(failed_files) = NumFiles

\* C10: the calls in flight (started, not yet returned, sleeping ones
\* included) never outnumber max_workers, and neither do the live engines; a
\* queued call starts only in a state with fewer than max_workers in flight.
C10_BoundedConcurrency ==
    /\ Cardinality(InFlight) <= max_workers
    /\ Cardinality(LiveEngines) <= max_workers

C10_Witness ==
    /\ \E t \in Tasks : pc[t] = "queued"
    /\ \E u \in Tasks : pc[u] = "sleep" /\ engine[u] = "live"
    /\ Cardinality(InFlight) = max_workers

\* C11: every engine an attempt acquired is disposed when the attempt is left,
\* whatever the exit path: a call that is starting its next attempt, or has
\* returned, holds no undisposed engine, and neither does any call once run
\* has returned.
C11_GuaranteedRelease ==
    /\ \A t \in Tasks : pc[t] \in {"create", "done"} => held[t] = {}
    /\ mainPc = "done" => LiveEngines = {}

C11_Witness ==
    /\ mainPc = "done"
    /\ \E t \in Tasks : result[t].success /\ engine[t] = "disposed"
    /\ \E t \in Tasks : ~result[t].success /\ engine[t] = "disposed"

\* C13: every outcome carries an empty error message exactly when it is a
\* success, for every max_retries and every failure pattern.
C13_ErrorEmptyIffSuccess ==
    \A t \in Tasks :
        pc[t] = "done" => (result[t].error = "" <=> result[t].success)

\* C15: no engine is shared or reused: an attempt that uses a connection uses
\* the engine it created itself, no other attempt and no other task holds that
\* engine, a task holds at most one undisposed engine, and an attempt starts
\* only when the task's previous engine has been disposed.
C15_EngineIsolation ==
    /\ \A t \in Tasks :
        /\ Cardinality(held[t]) <= 1
        /\ pc[t] \in {"read", "write", "commit"} =>
            /\ engine[t] = "live"
            /\ engine_id[t] = <<t, attempt[t]>>
            /\ held[t] = {engine_id[t]}
        /\ pc[t] = "create" => held[t] = {}
    /\ \A t, u \in Tasks : t # u => held[t] \cap held[u] = {}

C15_Witness ==
    \E t, u \in Tasks :
        /\ t # u
        /\ pc[t] = "write" /\ attempt[t] = 2
        /\ pc[u] = "write" /\ attempt[u] = 2

\* C19: the engine of a transiently failed attempt is disposed before the
\* retry delay starts: a task that is sleeping holds no undisposed engine.
C19_SleepHoldsNoEngine ==
    \A t \in Tasks : pc[t] = "sleep" => held[t] = {}

\* C12: validate_csv returns False exactly for a dataset with no row, no
\* column or a column name that occurs more than once; a dataset with a row
\* whose cells are all empty, and otherwise well-formed, passes with the
\* warning logged.
C12_ValidatorContract ==
    \A t \in Tasks :
        LET d == df[t]
            names == {d.columns[j] : j \in 1..Len(d.columns)}
            malformed == \/ Len(d.rows) = 0
                         \/ Len(d.columns) = 0
                         \/ Cardinality(names) < Len(d.columns)
            blank_row == \E i \in 1..Len(d.rows) :
                            {d.rows[i][j] : j \in 1..Len(d.columns)} = {""}
        IN  validation[t].done =>
                /\ ~validation[t].ok <=> malformed
                /\ ~malformed /\ blank_row =>
                        validation[t].ok /\ validation[t].warned

C12_Witness ==
    \E t \in Tasks :
        /\ validation[t].done /\ validation[t].ok /\ validation[t].warned
        /\ Len(df[t].rows) = MaxRows
        /\ \A i \in 1..Len(df[t].rows) : \A j \in 1..Len(df[t].columns) :
                df[t].rows[i][j] = ""

\* C14: the steps of an attempt run in the order read, validate, write,
\* commit: the table is written only from a dataset this attempt read and
\* validated, the commit follows the write, a call returns success only
\* after the commit of the attempt it returns from, and a call that returns
\* a failure has committed nothing.
C14_StepOrder ==
    [][
        \A t \in Tasks :
            LET wellformed(d) ==
                    /\ Len(d.rows) > 0 /\ Len(d.columns) > 0
                    /\ \A i, j \in 1..Len(d.columns) :
                            d.columns[i] = d.columns[j] => i = j
            IN
            /\ pc'[t] = "write" /\ pc[t] # "write" =>
                    /\ pc[t] = "read"
                    /\ validation'[t].done /\ validation'[t].ok
                    /\ wellformed(df'[t])
            /\ written'[t] /\ ~written[t] =>
                    /\ pc[t] = "write" /\ pc'[t] = "commit"
                    /\ validation[t].ok /\ wellformed(df[t])
                    /\ df'[t] = df[t]
            /\ committed'[t] /\ ~committed[t] =>
                    /\ pc[t] = "commit" /\ written[t]
                    /\ attempt'[t] = attempt[t]
                    /\ exit'[t] = "return_ok"
            /\ Returns(t) /\ result'[t].success =>
                    /\ exit[t] = "return_ok"
                    /\ validation[t].ok /\ committed[t]
            /\ Returns(t) /\ ~result'[t].success => ~committed'[t]
    ]_vars

C14_Witness ==
    \E t, u \in Tasks :
        /\ pc[t] = "finally" /\ exit[t] = "return_ok" /\ attempt[t] = 2
        /\ committed[t]
        /\ pc[u] = "done" /\ ~result[u].success /\ result[u].error = DbMsg
        /\ ~committed[u]

\* C16: no step of a worker thread changes successful_files or failed_files;
\* every change of the two lists is one append of one finished task's
\* outcome by the calling thread in its as_completed loop, and no task is
\* ever recorded twice.
C16_SingleWriter ==
    [][
        /\ (\E t \in Tasks : pc'[t] # pc[t]) =>
                /\ successful_files' = successful_files
                /\ failed_files' = failed_files
        /\ <<successful_files, failed_files>>' # <<successful_files, failed_files>> =>
                /\ mainPc = "drain" /\ pc' = pc
                /\ \E t \in Tasks :
                    /\ pc[t] = "done"
                    /\ \/ /\ successful_files' = Append(successful_files, t)
                          /\ failed_files' = failed_files
                       \/ /\ failed_files' = Append(failed_files, <<t, result[t].error>>)
                          /\ successful_files' = successful_files
                /\ \A t \in Tasks : Occurrences(t)' <= 1
    ]_vars

C16_Witness ==
    /\ mainPc = "drain"
    /\ Len(successful_files) + Len(failed_files) = 1
    /\ \E t \in Tasks : pc[t] \in {"read", "write", "commit", "sleep"}

\* Event a happened before event b (a call ending, or as_completed called).
Before(a, b) ==
    \E k, l \in 1..Len(events) : k < l /\ events[k] = a /\ events[l] = b

\* If tasks i and j are in the same result list, i stands before j in it.
InOrderWhereListedTogether(i, j) ==
    /\ \A k, l \in 1..Len(successful_files) :
            successful_files[k] = i /\ successful_files[l] = j => k < l
    /\ \A k, l \in 1..Len(failed_files) :
            failed_files[k][1] = i /\ failed_files[l][1] = j => k < l

\* C17 (as stated): outcomes are collected in completion order: if task i
\* completes before task j and both land in the same list, i precedes j
\* (stated for the loaders that have their credentials and make at least
\* one attempt per file).
C17_CompletionOrder ==
    db_host /\ max_retries >= 1 =>
        \A i, j \in Tasks :
            i # j /\ Before(i, j) => InOrderWhereListedTogether(i, j)

\* C17 (amended): if task i completes before task j, j completes after the
\* calling thread has called as_completed, and both land in the same list,
\* then i precedes j, also when j was submitted first.
C17_CompletionOrderOnceDraining ==
    \A i, j \in Tasks :
        i # j /\ Before(i, j) /\ Before(AsCompletedCalled, j) =>
            InOrderWhereListedTogether(i, j)

C17_Witness ==
    /\ mainPc = "done"
    /\ max_workers >= 2
    /\ \E i, j \in Tasks :
        /\ j < i
        /\ Before(i, j) /\ Before(AsCompletedCalled, j)
        /\ \E k, l \in 1..Len(successful_files) :
                k < l /\ successful_files[k] = i /\ successful_files[l] = j

\* C18: the report belongs to the run that produced it: when a run ends,
\* also a second run on the same DataLoader, the two lists hold exactly one
\* entry for each of that run's tasks, the outcome that task had in this
\* run, and nothing else.
C18_ReportOfThisRun ==
    mainPc = "done" =>
        /\ Len(successful_files) + Len(failed_files) = NumFiles
        /\ \A t \in Tasks :
            /\ Occurrences(t) = 1
            /\ result[t].success =>
                    \E k \in 1..Len(successful_files) : successful_files[k] = t
            /\ ~result[t].success =>
                    \E k \in 1..Len(failed_files) :
                        failed_files[k] = <<t, result[t].error>>

====
